---- MODULE Spec2Model ----
(***************************************************************************)
(* Model of the action-execution layer of instagram-ai-bot:                *)
(*   - RateLimiter          (src/utils/rate-limiter.ts)                    *)
(*   - ProxyManager         (src/automation/proxies.ts and the older       *)
(*                           variant kept in unnamed/part_009)             *)
(*   - InstagramAutomation  (src/automation/instagram.ts)                  *)
(* Time is the value of Date.now() in milliseconds.  Every `await` on a    *)
(* timer or on I/O is a point where another caller may run; the code       *)
(* between two such points runs to completion (single JavaScript thread).  *)
(***************************************************************************)
EXTENDS Integers, Sequences, FiniteSets, TLC

\* ------------------------------------------------------------------ bounds
NumCallers == 2          \* concurrent callers of the limiter / the session
MaxTicks == 7            \* the clock stops advancing after this many ticks
FairMaxTicks == 9        \* the same, where timers fire as they fall due
ProxyMaxTicks == 4       \* the same, where only the proxy pool runs
SessionMaxTicks == 3     \* the same, where the session runs
MaxContexts == 1         \* browser contexts a session may create
ReadyMaxTicks == 2       \* clock horizon where only initialize and login run
ReadyMaxContexts == 2    \* browser contexts a session may create there
RandDen == 2             \* Math.random() takes the values k / RandDen
MaxWindowSecs == 2       \* largest options.timeWindow tried (seconds)
MaxRequestsOpt == 2      \* largest options.maxRequests tried
MaxDelayOpt == 2         \* options.minDelay / maxDelay tried: 0..MaxDelayOpt half default minimums
NumProxies == 2          \* proxies a source can list
NumTasks == 2            \* scheduled task ids
MaxJobs == 3             \* CronJob objects constructed in a run
MaxFirings == 2          \* onTick callbacks started in a run
ProxyRotationSecs == 1   \* the configured proxy rotation interval (seconds)

Callers == 1..NumCallers

\* --------------------------------------------------- rate-limiter constants
DefaultMinDelay == 500
DefaultMaxDelay == 3000
MsPerSecond == 1000

\* one clock tick, in milliseconds
TickMs == DefaultMinDelay

VARIABLES
  now,            \* Date.now()
  maxRequests,    \* RateLimiter.maxRequests
  timeWindow,     \* RateLimiter.timeWindow (ms)
  minDelay,       \* RateLimiter.minDelay
  maxDelay,       \* RateLimiter.maxDelay
  requestTimes,   \* RateLimiter.requestTimes
  pc,             \* per caller: position in the method it is running
  kind,           \* per caller: the method it is running
  timer,          \* per caller: instant at which its pending setTimeout is due
  grants,         \* history, per caller: grants wait() recorded for its current call
  options,        \* history: the options the RateLimiter was constructed with
  grantLog,       \* history: every timestamp pushed since construction/reset
  variant,        \* which ProxyManager source is built: "current" | "legacy"
  proxyType,      \* configured proxy source type
  proxies,        \* ProxyManager.proxies (sequence of proxy ids)
  failCount,      \* Proxy.failCount, per proxy id
  currentIndex,   \* ProxyManager.currentIndex (proxies.ts)
  currentProxyIndex, \* ProxyManager.currentProxyIndex (part_009)
  lastRotation,   \* ProxyManager.lastRotation (-1 is null)
  rotationInterval,  \* ProxyManager.rotationInterval (proxies.ts), ms
  initAt,         \* history: instant of the last successful initialize (-1: none)
  handed,         \* history: proxies returned since the last reshuffle / initialize
  sawExpiry,      \* per caller in getProxy: the lastRotation it found expired
  crossed,        \* history: the last expiry crossed and the slots handed for it
  lastOp,         \* history: the last ProxyManager operation and its outcome
  page,           \* InstagramAutomation.page: 0 is null, n the n-th context's page
  isLoggedIn,     \* InstagramAutomation.isLoggedIn
  contexts,       \* browser contexts created so far
  boundProxy,     \* the proxy the current context was created with (0: none)
  result,         \* per caller: how its last call ended
  events,         \* history, per caller: notable page interactions of its call
  touched,        \* history, per caller: has its call performed a page step?
  inFlight,       \* history: the calls in progress, in the order they were made
  detections,     \* history: logins in a row that ended on the suspicious-activity notice
  closed,         \* the browser context of the current page has been closed
  jobs,           \* Scheduler.jobs: per task id, the CronJob stored (0: no entry)
  cronJobs,       \* every CronJob constructed, in order: its task and whether it runs
  removed,        \* history: the task ids whose last scheduler call was removeTask
  call,           \* the Scheduler method in progress and the await it is at
  firing,         \* per CronJob: position inside its onTick callback
  fired,          \* history: onTick callbacks started
  failures,       \* history: task failures caught and logged
  exited,         \* process.exit() has been called
  taskPc,         \* position of main() of tasks/post-content.ts
  appPc,          \* position of Application.initialize()
  downPc,         \* per caller of Application.shutdown(): its position
  browser,        \* Application.browser is set
  browserOpen,    \* history: a launched browser has not been closed
  openContexts,   \* history: browser contexts opened and not closed
  isRunning,      \* Application.isRunning
  scheduler       \* Application.scheduler is set

rlVars == <<maxRequests, timeWindow, minDelay, maxDelay, requestTimes, grantLog, options>>
callVars == <<pc, kind, timer, grants>>
pmVars == <<variant, proxyType, proxies, failCount, currentIndex, currentProxyIndex,
            lastRotation, rotationInterval, initAt, handed, sawExpiry, crossed, lastOp>>
sessVars == <<page, isLoggedIn, contexts, boundProxy, result, events, touched, inFlight,
             detections, closed>>
schedVars == <<jobs, cronJobs, removed, call, firing, fired, failures, exited, taskPc>>
appVars == <<appPc, downPc, browser, browserOpen, openContexts, isRunning, scheduler>>
vars == <<now, rlVars, callVars, pmVars, sessVars, schedVars, appVars>>

\* ------------------------------------------------------------ helpers
\* JavaScript `a || b` on numbers: 0 (and undefined, modelled as 0) is falsy
OrDefault(a, b) == IF a = 0 THEN b ELSE a

RECURSIVE FilterSeq(_, _, _)
\* Array.prototype.filter with the predicate `now - time < window`
FilterSeq(s, at, window) ==
  IF s = <<>> THEN <<>>
  ELSE IF at - Head(s) < window
       THEN <<Head(s)>> \o FilterSeq(Tail(s), at, window)
       ELSE FilterSeq(Tail(s), at, window)

\* ------------------------------------------------------------ RateLimiter
\* constructor(options)
RateLimiterNew(optMaxRequests, optTimeWindow, optMinDelay, optMaxDelay) ==
  /\ maxRequests = optMaxRequests
  /\ timeWindow = optTimeWindow * MsPerSecond
  /\ minDelay = OrDefault(optMinDelay, DefaultMinDelay)
  /\ maxDelay = OrDefault(optMaxDelay, DefaultMaxDelay)
  /\ requestTimes = <<>>
  /\ options = [maxRequests |-> optMaxRequests, timeWindow |-> optTimeWindow,
                minDelay |-> optMinDelay, maxDelay |-> optMaxDelay]

\* the delay computed by randomDelay() when Math.random() = k / RandDen
RandomDelay(k) == ((k * (maxDelay - minDelay)) \div RandDen) + minDelay

\* where a caller goes when wait() resolves: back to its own code (a bare
\* call), or to the first step of the action that awaited the limiter
AfterWait(c) ==
  CASE kind[c] = "login" -> {"goto", "shot"}   \* "shot": no credentials, catch
    [] kind[c] = "createPost" -> {"clickCreate"}
    [] kind[c] = "likePost" -> {"gotoPost"}
    [] kind[c] = "followUser" -> {"gotoProfile"}
    [] kind[c] = "commentOnPost" -> {"gotoComment"}
    [] kind[c] = "unfollowUser" -> {"gotoUser"}
    [] OTHER -> {"idle"}

\* wait(), first part: the call itself and the start of randomDelay()
WaitBegin(c) ==
  \E k \in 0..(RandDen - 1) :
    /\ pc' = [pc EXCEPT ![c] = "randomDelay"]
    /\ timer' = [timer EXCEPT ![c] = now + RandomDelay(k)]
    /\ grants' = [grants EXCEPT ![c] = 0]

\* requestTimes.push(Date.now()) and the return of wait()
Record(c, times) ==
  /\ requestTimes' = Append(times, now)
  /\ grantLog' = Append(grantLog, now)
  /\ \E next \in AfterWait(c) : pc' = [pc EXCEPT ![c] = next]
  /\ timer' = [timer EXCEPT ![c] = 0]
  /\ grants' = [grants EXCEPT ![c] = @ + 1]

\* wait(), second part: the jitter timer has fired; purge, check, and either
\* record at once or go to sleep until the oldest entry ages out
WaitCheck(c) ==
  /\ pc[c] = "randomDelay"
  /\ now >= timer[c]
  /\ LET purged == FilterSeq(requestTimes, now, timeWindow)
     IN IF /\ Len(purged) >= maxRequests
           /\ Len(purged) > 0      \* requestTimes[0] undefined: NaN > 0 is false
           /\ timeWindow - (now - purged[1]) > 0
        THEN /\ requestTimes' = purged
             /\ timer' = [timer EXCEPT ![c] = now + (timeWindow - (now - purged[1]))]
             /\ pc' = [pc EXCEPT ![c] = "limited"]
             /\ UNCHANGED <<grantLog, grants>>
        ELSE Record(c, purged)
  /\ UNCHANGED <<now, schedVars, appVars, maxRequests, timeWindow, minDelay, maxDelay, options, kind, pmVars,
                 sessVars>>

\* WaitWake, going back to sleep for a window instead of recording
WaitWakeSleepAgain(c) ==
  /\ pc[c] = "limited"
  /\ now >= timer[c]
  /\ timer' = [timer EXCEPT ![c] = now + timeWindow]
  /\ UNCHANGED <<now, schedVars, appVars, rlVars, pc, kind, grants, pmVars, sessVars>>

\* wait(), third part: the window-exhaustion timer has fired
WaitWake(c) ==
  /\ pc[c] = "limited"
  /\ now >= timer[c]
  /\ Record(c, requestTimes)
  /\ UNCHANGED <<now, schedVars, appVars, maxRequests, timeWindow, minDelay, maxDelay, options, kind, pmVars,
                 sessVars>>

\* a bare call of wait() by a client of the limiter
Wait(c) ==
  /\ pc[c] = "idle"
  /\ kind' = [kind EXCEPT ![c] = "wait"]
  /\ WaitBegin(c)
  /\ UNCHANGED <<now, schedVars, appVars, rlVars, pmVars, sessVars>>

\* reset()
Reset ==
  /\ requestTimes # <<>>
  /\ requestTimes' = <<>>
  /\ grantLog' = <<>>
  /\ UNCHANGED <<now, schedVars, appVars, maxRequests, timeWindow, minDelay, maxDelay, options, callVars, pmVars,
                 sessVars>>

\* the passage of time, up to a horizon of `ticks` ticks
Advance(ticks) ==
  /\ now < ticks * TickMs
  /\ now' = now + TickMs
  /\ UNCHANGED <<rlVars, callVars, pmVars, sessVars, schedVars, appVars>>

Tick == Advance(MaxTicks)

\* a caller's setTimeout is pending and due
TimerDue(c) == pc[c] \in {"randomDelay", "limited"} /\ now >= timer[c]

\* the passage of time when the event loop runs every timer as it falls due
TimelyTick ==
  /\ \A c \in Callers : ~TimerDue(c)
  /\ Advance(FairMaxTicks)

\* a bare call of wait(), made early enough for its two timers (the jitter,
\* rounded up to a tick, and the wait for the window) to fall due before the
\* clock stops
WaitTimely(c) ==
  /\ now + RandomDelay(RandDen - 1) + TickMs + timeWindow <= FairMaxTicks * TickMs
  /\ Wait(c)

\* ------------------------------------------------------------ ProxyManager
ProxyIds == 1..NumProxies

\* the sequences of distinct proxies: what a proxy source can resolve to
ProxyLists ==
  UNION {{q \in [1..n -> ProxyIds] : \A i, j \in 1..n : i # j => q[i] # q[j]} :
         n \in 0..NumProxies}

\* what reading a proxy source (config list, API response, file) can give:
\* a list (in the order of the proxy ids), nothing, or something malformed
SourceResults ==
  [st : {"ok"}, list : {q \in ProxyLists : \A i, j \in 1..Len(q) : i < j => q[i] < q[j]}]
    \cup [st : {"unreachable"}, list : {<<>>}]
    \cup [st : {"malformed"}, list : {q \in ProxyLists : Len(q) = 1}]

\* every order the Fisher-Yates loop can leave the array in
Shuffles(q) ==
  {r \in ProxyLists :
     /\ Len(r) = Len(q)
     /\ \A i \in 1..Len(q) : \E j \in 1..Len(r) : r[j] = q[i]}

ProxyTypes == {"none", "manual", "api", "file"}

\* the ProxyConfig values tried: the type, and whether the apiUrl / apiKey /
\* filePath the type needs is set
ProxyConfigs ==
  {[type |-> "none", hasLocator |-> FALSE], [type |-> "manual", hasLocator |-> FALSE],
   [type |-> "api", hasLocator |-> FALSE], [type |-> "api", hasLocator |-> TRUE],
   [type |-> "file", hasLocator |-> FALSE], [type |-> "file", hasLocator |-> TRUE]}

FailureThreshold == 3

\* detections in a row after which a session counts as Degraded
DegradedAfter == 3
DefaultRotationInterval == 3600000

NoOp == [op |-> "none", ok |-> TRUE, type |-> "none", proxy |-> 0, slot |-> -1,
         due |-> FALSE, rotated |-> FALSE, src |-> "none"]
NoneCrossed == [expiry |-> -1, rotations |-> 0, slots |-> <<>>]

\* history: a call that found the rotation of instant `expiry` expired has
\* rotated the pool (`rotated`) and was handed the slot `slot` (-1: none)
Crossing(expiry, rotated, slot) ==
  LET base == IF expiry = crossed.expiry THEN crossed
              ELSE [expiry |-> expiry, rotations |-> 0, slots |-> <<>>]
  IN IF expiry = -1 THEN crossed
     ELSE [base EXCEPT !.rotations = IF rotated THEN @ + 1 ELSE @,
                       !.slots = IF slot = -1 THEN @ ELSE Append(@, slot)]

\* keep the last NumProxies + 1 entries of the history of returned proxies
Recent(h) ==
  IF Len(h) <= NumProxies + 1 THEN h
  ELSE SubSeq(h, Len(h) - NumProxies, Len(h))

\* the configured rotation interval, as the legacy getProxy reads it
LegacyRotationInterval == ProxyRotationSecs * MsPerSecond

\* constructor
ProxyManagerNew(v, type, cfgRotation) ==
  /\ variant = v
  /\ proxyType = type
  /\ proxies = <<>>
  /\ failCount = [p \in ProxyIds |-> 0]
  /\ currentIndex = 0
  /\ currentProxyIndex = 0
  /\ lastRotation = IF v = "current" THEN -1 ELSE now
  /\ rotationInterval = OrDefault(cfgRotation, DefaultRotationInterval)
  /\ initAt = -1
  /\ handed = <<>>
  /\ sawExpiry = [c \in Callers |-> -1]
  /\ crossed = NoneCrossed
  /\ lastOp = NoOp

\* has the pool gone longer than the rotation interval since its last
\* rotation, or since its initialization when it never rotated?
RotationDue(interval) ==
  /\ initAt # -1
  /\ now - (IF lastRotation > initAt THEN lastRotation ELSE initAt) > interval

\* the index update with the increment left out
NextIndexKept(index, length) == index % length

\* `(index + 1) % this.proxies.length`
NextIndex(index, length) == (index + 1) % length

\* getProxy's test `this.lastRotation && now - lastRotation > rotationInterval`
NeedsRotation == lastRotation # -1 /\ now - lastRotation > rotationInterval

\* initialize(config), proxies.ts: does the configured source give a pool?
InitializeFails(type, src, hasLocator) ==
  CASE type = "manual" -> src.st # "ok" \/ Len(src.list) = 0
    [] type = "api" -> ~hasLocator \/ src.st # "ok" \/ Len(src.list) = 0
    [] type = "file" -> ~hasLocator \/ src.st # "ok" \/ Len(src.list) = 0
    [] OTHER -> TRUE

\* initialize(config), proxies.ts
Initialize(type, src, hasLocator, cfgRotation) ==
  /\ variant = "current"
  /\ IF InitializeFails(type, src, hasLocator)
     THEN /\ lastOp' = [NoOp EXCEPT !.op = "initialize", !.ok = FALSE,
                                    !.type = type, !.src = src.st]
          /\ UNCHANGED <<proxies, failCount, rotationInterval, initAt, handed>>
     ELSE /\ proxies' = src.list
          /\ failCount' = [p \in ProxyIds |-> 0]
          /\ rotationInterval' = OrDefault(cfgRotation, rotationInterval)
          /\ initAt' = now
          /\ handed' = <<>>
          /\ lastOp' = [NoOp EXCEPT !.op = "initialize", !.type = type, !.src = src.st]
  /\ UNCHANGED <<now, schedVars, appVars, sessVars, rlVars, callVars, variant, proxyType, currentIndex,
                 currentProxyIndex, lastRotation, sawExpiry, crossed>>

\* getProxy(), proxies.ts.  rotateProxies() awaits nothing, so the whole call
\* runs without another caller in between.
GetProxy ==
  /\ variant = "current"
  /\ IF Len(proxies) = 0
     THEN /\ lastOp' = [NoOp EXCEPT !.op = "getProxy", !.ok = FALSE]
          /\ UNCHANGED <<proxies, currentIndex, lastRotation, handed, crossed>>
     ELSE \E order \in (IF NeedsRotation THEN Shuffles(proxies) ELSE {proxies}) :
            LET index == IF NeedsRotation THEN 0 ELSE currentIndex
            IN IF index >= Len(order)
               THEN \* proxies[index] is undefined: `proxy.lastUsed =` throws
                    /\ lastOp' = [NoOp EXCEPT !.op = "getProxy", !.ok = FALSE,
                                              !.due = RotationDue(rotationInterval)]
                    /\ UNCHANGED <<proxies, currentIndex, lastRotation, handed, crossed>>
               ELSE /\ proxies' = order
                    /\ lastRotation' = IF NeedsRotation THEN now ELSE lastRotation
                    /\ currentIndex' = NextIndex(index, Len(order))
                    /\ handed' = Recent(Append(IF NeedsRotation THEN <<>> ELSE handed,
                                               order[index + 1]))
                    /\ crossed' = Crossing(IF NeedsRotation THEN lastRotation ELSE -1,
                                            NeedsRotation, index)
                    /\ lastOp' = [NoOp EXCEPT !.op = "getProxy",
                                              !.proxy = order[index + 1],
                                              !.slot = index,
                                              !.due = RotationDue(rotationInterval),
                                              !.rotated = NeedsRotation]
  /\ UNCHANGED <<now, schedVars, appVars, sessVars, rlVars, callVars, variant, proxyType, failCount,
                 currentProxyIndex, rotationInterval, initAt, sawExpiry>>

\* reportOutcome(proxyId, success): increments or resets the failure count
ReportOutcome(p, success) ==
  /\ variant = "current"
  /\ \E i \in 1..Len(proxies) : proxies[i] = p
  /\ success \/ failCount[p] < FailureThreshold
  /\ failCount' = [failCount EXCEPT ![p] = IF success THEN 0 ELSE @ + 1]
  /\ lastOp' = [NoOp EXCEPT !.op = "reportOutcome", !.proxy = p, !.ok = success]
  /\ UNCHANGED <<now, schedVars, appVars, sessVars, rlVars, callVars, variant, proxyType, proxies, currentIndex,
                 currentProxyIndex, lastRotation, rotationInterval, initAt,
                 handed, sawExpiry, crossed>>

\* ------------------------------------------- ProxyManager, older variant
\* initialize(), part_009: what the configured source leaves in this.proxies
\* (<<>> with ok = FALSE when it throws)
LegacyResolve(src) ==
  CASE proxyType = "none" -> [ok |-> TRUE, set |-> FALSE, list |-> <<>>]
    [] proxyType = "manual" -> [ok |-> TRUE, set |-> TRUE, list |-> <<1>>]
    [] proxyType = "api" ->
         IF src.st = "ok" THEN [ok |-> TRUE, set |-> TRUE, list |-> src.list]
         ELSE [ok |-> FALSE, set |-> FALSE, list |-> <<>>]
    [] proxyType = "file" ->
         \* every non-blank line becomes a record, whatever it holds
         IF src.st = "unreachable" THEN [ok |-> FALSE, set |-> FALSE, list |-> <<>>]
         ELSE [ok |-> TRUE, set |-> TRUE, list |-> src.list]

\* initialize(), part_009
LegacyInitialize(src) ==
  /\ variant = "legacy"
  /\ LET r == LegacyResolve(src)
     IN /\ proxies' = IF r.set THEN r.list ELSE proxies
        /\ handed' = IF r.set THEN <<>> ELSE handed
        /\ initAt' = IF r.ok THEN now ELSE initAt
        /\ lastOp' = [NoOp EXCEPT !.op = "initialize", !.ok = r.ok,
                                  !.type = proxyType, !.src = src.st]
  /\ UNCHANGED <<now, schedVars, appVars, sessVars, rlVars, callVars, variant, proxyType, failCount, currentIndex,
                 currentProxyIndex, lastRotation, rotationInterval, sawExpiry, crossed>>

\* getProxy(), part_009, from `const proxy = this.proxies[...]` to the return,
\* on the array `order` with the index `index`; `rotated` tells whether
\* rotateProxies() ran in this call and `expiry` the lastRotation it found expired
LegacyHandOut(order, index, rotated, expiry, due) ==
  /\ proxies' = order
  /\ lastRotation' = IF rotated THEN now ELSE lastRotation
  /\ IF index >= Len(order)
     THEN \* proxies[index] is undefined: `proxy.lastUsed =` throws
          /\ currentProxyIndex' = index
          /\ handed' = IF rotated THEN <<>> ELSE handed
          /\ crossed' = Crossing(expiry, rotated, -1)
          /\ lastOp' = [NoOp EXCEPT !.op = "getProxy", !.ok = FALSE, !.due = due,
                                    !.rotated = rotated]
     ELSE /\ currentProxyIndex' = NextIndex(index, Len(order))
          /\ handed' = Recent(Append(IF rotated THEN <<>> ELSE handed, order[index + 1]))
          /\ crossed' = Crossing(expiry, rotated, index)
          /\ lastOp' = [NoOp EXCEPT !.op = "getProxy", !.proxy = order[index + 1],
                                    !.slot = index, !.due = due, !.rotated = rotated]

\* getProxy(), part_009, up to the first await on I/O (or to the end when
\* there is none)
LegacyGetProxy(c) ==
  /\ variant = "legacy"
  /\ pc[c] = "idle"
  /\ LET expired == now - lastRotation >= LegacyRotationInterval
         due == RotationDue(LegacyRotationInterval)
     IN IF Len(proxies) = 0
        THEN \* returns { url: 'direct://' }
             /\ lastOp' = [NoOp EXCEPT !.op = "getProxy", !.due = due]
             /\ UNCHANGED <<proxies, currentProxyIndex, lastRotation, handed, sawExpiry,
                            crossed, pc, kind>>
        ELSE IF expired /\ proxyType = "api"
        THEN \* rotateProxies() awaits the API
             /\ pc' = [pc EXCEPT ![c] = "fetching"]
             /\ kind' = [kind EXCEPT ![c] = "getProxy"]
             /\ sawExpiry' = [sawExpiry EXCEPT ![c] = lastRotation]
             /\ lastOp' = [NoOp EXCEPT !.op = "fetch", !.due = due]
             /\ UNCHANGED <<proxies, currentProxyIndex, lastRotation, handed, crossed>>
        ELSE /\ \E order \in (IF expired THEN Shuffles(proxies) ELSE {proxies}) :
                  LegacyHandOut(order, IF expired THEN 0 ELSE currentProxyIndex,
                                expired, IF expired THEN lastRotation ELSE -1, due)
             /\ UNCHANGED <<pc, kind, sawExpiry>>
  /\ UNCHANGED <<now, schedVars, appVars, sessVars, rlVars, timer, grants, variant, proxyType, failCount, currentIndex,
                 rotationInterval, initAt>>

\* getProxy(), part_009: the API answered; the rest of rotateProxies() and of
\* getProxy() runs
LegacyFetchDone(c, src) ==
  /\ variant = "legacy"
  /\ pc[c] = "fetching"
  /\ pc' = [pc EXCEPT ![c] = "idle"]
  /\ kind' = [kind EXCEPT ![c] = "none"]
  /\ sawExpiry' = [sawExpiry EXCEPT ![c] = -1]
  /\ IF src.st # "ok"
     THEN /\ lastOp' = [NoOp EXCEPT !.op = "getProxy", !.ok = FALSE, !.due = TRUE,
                                    !.src = src.st]
          /\ UNCHANGED <<proxies, currentProxyIndex, lastRotation, handed, crossed>>
     ELSE \E order \in Shuffles(src.list) :
            LegacyHandOut(order, 0, TRUE, sawExpiry[c], TRUE)
  /\ UNCHANGED <<now, schedVars, appVars, sessVars, rlVars, timer, grants, variant, proxyType, failCount, currentIndex,
                 rotationInterval, initAt>>

\* ------------------------------------------------------------ InstagramAutomation
\* how a flow ends
Ends == {"RETURN_TRUE", "RETURN_FALSE", "THROW"}

\* the steps that ask the page for an element (page.$): the element is there
\* or not, or the call throws
Queries == {"cookie?", "twoFactor?", "saveLogin?", "notNow?", "incorrect?",
            "suspicious?", "disabled?", "fileInput?", "unlike?", "unfollow?",
            "following?", "confirm?"}

\* what a step can do: every awaited page call can throw (timeout, closed
\* page); takeScreenshot catches its own error
Outcomes(label) ==
  IF label \in Queries THEN {"found", "absent", "throw"}
  ELSE IF label \in {"shot", "shotPost"} THEN {"ok", "failed"}
  ELSE {"ok", "throw"}

\* Catch, retrying the share step when its confirmation did not arrive
CatchResubmit(k, label) ==
  CASE k = "login" -> "shot"
    [] k = "createPost" -> IF label = "waitSuccess" THEN "clickShare" ELSE "shotPost"
    [] OTHER -> "RETURN_FALSE"

\* where an exception thrown inside the try block of a method goes
Catch(k, label) ==
  CASE k = "login" -> "shot"
    [] k = "createPost" -> "shotPost"
    [] OTHER -> "RETURN_FALSE"

\* login(): the step after `label` when it ended with `outcome`.  A step
\* that is followed by page.waitForTimeout (after the cookie, user name,
\* password, save-login and not-now steps) includes that pause: the pause
\* touches nothing, and a throw of either goes to the same catch block.
LoginFlow(label, outcome) ==
  CASE label = "goto" -> {"cookie?"}
    [] label = "cookie?" -> IF outcome = "found" THEN {"cookieClick"} ELSE {"fillUser"}
    [] label = "cookieClick" -> {"fillUser"}
    [] label = "fillUser" -> {"fillPass"}
    [] label = "fillPass" -> {"clickLogin"}
    [] label = "clickLogin" -> {"waitNav"}
    [] label = "waitNav" -> {"twoFactor?"}
       \* getTwoFactorCode() throws when no code is configured
    [] label = "twoFactor?" -> IF outcome = "found" THEN {"twoFactorFill", "shot"}
                               ELSE {"saveLogin?"}
    [] label = "twoFactorFill" -> {"twoFactorClick"}
    [] label = "twoFactorClick" -> {"twoFactorNav"}
    [] label = "twoFactorNav" -> {"saveLogin?"}
    [] label = "saveLogin?" -> IF outcome = "found" THEN {"saveLoginClick"} ELSE {"notNow?"}
    [] label = "saveLoginClick" -> {"notNow?"}
    [] label = "notNow?" -> IF outcome = "found" THEN {"notNowClick"} ELSE {"landmark"}
    [] label = "notNowClick" -> {"landmark"}
    [] label = "landmark" -> {"RETURN_TRUE"}
       \* the catch block
    [] label = "shot" -> {"incorrect?"}
    [] label = "incorrect?" -> IF outcome = "found" THEN {"RETURN_FALSE"} ELSE {"suspicious?"}
    [] label = "suspicious?" -> IF outcome = "found" THEN {"RETURN_FALSE"} ELSE {"disabled?"}
    [] label = "disabled?" -> {"RETURN_FALSE"}

\* createPost(): the step after `label` when it ended with `outcome`
\* ("fillCaption" includes the pause that follows it)
PostFlow(label, outcome) ==
  CASE label = "clickCreate" -> {"waitFile"}
    [] label = "waitFile" -> {"fileInput?"}
    [] label = "fileInput?" -> IF outcome = "found" THEN {"setFiles"} ELSE {"waitNext"}
    [] label = "setFiles" -> {"waitNext"}
    [] label = "waitNext" -> {"clickNext"}
    [] label = "clickNext" -> {"waitCaption"}
       \* `if (location)`
    [] label = "waitCaption" -> {"clickLocation", "fillCaption"}
    [] label = "clickLocation" -> {"fillLocation"}
    [] label = "fillLocation" -> {"waitLocation"}
    [] label = "waitLocation" -> {"clickLocationResult"}
    [] label = "clickLocationResult" -> {"fillCaption"}
    [] label = "fillCaption" -> {"clickShare"}
    [] label = "clickShare" -> {"waitSuccess"}
    [] label = "waitSuccess" -> {"RETURN_TRUE"}
       \* the catch block
    [] label = "shotPost" -> {"RETURN_FALSE"}

\* LikeFlow, clicking whatever the state check found
LikeFlowUnchecked(label, outcome) ==
  CASE label = "gotoPost" -> {"unlike?"}
    [] label = "unlike?" -> {"clickLike"}
    [] label = "clickLike" -> {"waitUnlike"}
    [] label = "waitUnlike" -> {"RETURN_TRUE"}

\* likePost(): the step after `label` when it ended with `outcome`
LikeFlow(label, outcome) ==
  CASE label = "gotoPost" -> {"unlike?"}
    [] label = "unlike?" -> IF outcome = "found" THEN {"RETURN_TRUE"} ELSE {"clickLike"}
    [] label = "clickLike" -> {"waitUnlike"}
    [] label = "waitUnlike" -> {"RETURN_TRUE"}

\* FollowFlow, clicking whatever the state check found
FollowFlowUnchecked(label, outcome) ==
  CASE label = "gotoProfile" -> {"unfollow?"}
    [] label = "unfollow?" -> {"clickFollow"}
    [] label = "clickFollow" -> {"waitUnfollow"}
    [] label = "waitUnfollow" -> {"RETURN_TRUE"}

\* followUser(): the step after `label` when it ended with `outcome`
FollowFlow(label, outcome) ==
  CASE label = "gotoProfile" -> {"unfollow?"}
    [] label = "unfollow?" -> IF outcome = "found" THEN {"RETURN_TRUE"} ELSE {"clickFollow"}
    [] label = "clickFollow" -> {"waitUnfollow"}
    [] label = "waitUnfollow" -> {"RETURN_TRUE"}

\* commentOnPost(): the step after `label` when it ended with `outcome`.
\* "typeChar" is keyboard.type of one character with the pause after it (the
\* comment may be empty, and has any number of characters); "pressEnter" is
\* the pause before the key press, the press, and the wait after it.
CommentFlow(label, outcome) ==
  CASE label = "gotoComment" -> {"clickComment"}
    [] label = "clickComment" -> {"typeChar", "pressEnter"}
    [] label = "typeChar" -> {"typeChar", "pressEnter"}
    [] label = "pressEnter" -> {"RETURN_TRUE"}

\* unfollowUser(): the step after `label` when it ended with `outcome`
UnfollowFlow(label, outcome) ==
  CASE label = "gotoUser" -> {"following?"}
    [] label = "following?" -> IF outcome = "found" THEN {"clickUnfollow"} ELSE {"RETURN_TRUE"}
    [] label = "clickUnfollow" -> {"confirm?"}
    [] label = "confirm?" -> IF outcome = "found" THEN {"confirmClick"} ELSE {"waitFollow"}
    [] label = "confirmClick" -> {"waitFollow"}
    [] label = "waitFollow" -> {"RETURN_TRUE"}

\* Flow, with a failed screenshot rejecting out of the catch block
FlowDiagnosticEscapes(k, label, outcome) ==
  IF outcome = "failed" THEN {"THROW"}
  ELSE IF outcome = "throw"
  THEN IF k = "login" /\ label \in {"incorrect?", "suspicious?", "disabled?"}
       THEN {"THROW"}
       ELSE {Catch(k, label)}
  ELSE CASE k = "login" -> LoginFlow(label, outcome)
         [] k = "createPost" -> PostFlow(label, outcome)
         [] k = "likePost" -> LikeFlow(label, outcome)
         [] k = "followUser" -> FollowFlow(label, outcome)
         [] k = "commentOnPost" -> CommentFlow(label, outcome)
         [] k = "unfollowUser" -> UnfollowFlow(label, outcome)

\* the step that follows `label` of method `k`
Flow(k, label, outcome) ==
  IF outcome = "throw"
  THEN IF k = "login" /\ label \in {"incorrect?", "suspicious?", "disabled?"}
       THEN {"THROW"}          \* thrown inside the catch block of login
       ELSE {Catch(k, label)}
  ELSE CASE k = "login" -> LoginFlow(label, outcome)
         [] k = "createPost" -> PostFlow(label, outcome)
         [] k = "likePost" -> LikeFlow(label, outcome)
         [] k = "followUser" -> FollowFlow(label, outcome)
         [] k = "commentOnPost" -> CommentFlow(label, outcome)
         [] k = "unfollowUser" -> UnfollowFlow(label, outcome)

\* history: the interactions worth remembering
Event(label, outcome) ==
  CASE label = "clickShare" /\ outcome = "ok" -> <<"share">>
    [] label = "waitSuccess" /\ outcome = "throw" -> <<"confirmTimeout">>
    [] label = "clickLogin" -> <<"submit">>
    [] label = "landmark" /\ outcome = "ok" -> <<"landmark">>
    [] outcome = "failed" -> <<"shotFailed">>
    [] label = "unlike?" /\ outcome = "found" -> <<"alreadyLiked">>
    [] label = "clickLike" -> <<"like">>
    [] label = "unfollow?" /\ outcome = "found" -> <<"alreadyFollowing">>
    [] label = "clickFollow" -> <<"follow">>
    [] label = "following?" /\ outcome = "absent" -> <<"notFollowing">>
    [] label = "clickUnfollow" -> <<"unfollow">>
    [] label = "confirmClick" -> <<"unfollow">>
    [] OTHER -> <<>>

\* a sequence without the entries equal to c
RECURSIVE Without(_, _)
Without(q, c) ==
  IF q = <<>> THEN <<>>
  ELSE IF Head(q) = c THEN Without(Tail(q), c)
       ELSE <<Head(q)>> \o Without(Tail(q), c)

\* getNextProxy(): the pool's next(), taken to be getProxy of proxies.ts with
\* no rotation pending
GetNextProxy ==
  IF Len(proxies) = 0 \/ currentIndex >= Len(proxies)
  THEN [ok |-> FALSE, proxy |-> 0, index |-> currentIndex]
  ELSE [ok |-> TRUE, proxy |-> proxies[currentIndex + 1],
        index |-> NextIndex(currentIndex, Len(proxies))]

\* initialize(): `reached` is how far it gets before something throws
\* ("proxy": getNextProxy throws, "context": newContext, "page": newPage,
\*  "script": addInitScript, "done": nothing throws)
SessionInitialize(useProxy, reached) ==
  /\ LET next == IF useProxy THEN GetNextProxy
                 ELSE [ok |-> TRUE, proxy |-> 0, index |-> currentIndex]
     IN /\ (reached = "proxy") = ~next.ok
        /\ currentIndex' = next.index
        /\ IF reached \in {"proxy", "context"}
           THEN UNCHANGED <<page, contexts, boundProxy, detections, closed>>
           ELSE /\ contexts' = contexts + 1
                /\ IF reached = "page"
                   THEN UNCHANGED <<page, boundProxy, detections, closed>>
                   ELSE /\ page' = contexts + 1
                        /\ boundProxy' = next.proxy
                        /\ detections' = 0     \* a new page: a new history
                        /\ closed' = FALSE
  /\ UNCHANGED <<now, schedVars, appVars, rlVars, callVars, isLoggedIn, result, events, touched, inFlight,
                 variant, proxyType, proxies, failCount, currentProxyIndex, lastRotation,
                 rotationInterval, initAt, handed, sawExpiry, crossed, lastOp>>

\* Invoke, going to the first page step without awaiting the limiter
InvokeUngated(c, k, ready) ==
  /\ pc[c] = "idle"
  /\ ready
  /\ kind' = [kind EXCEPT ![c] = k]
  /\ pc' = [pc EXCEPT ![c] = CASE k = "login" -> "goto"
                                 [] k = "createPost" -> "clickCreate"
                                 [] k = "likePost" -> "gotoPost"
                                 [] k = "followUser" -> "gotoProfile"
                                 [] k = "commentOnPost" -> "gotoComment"
                                 [] k = "unfollowUser" -> "gotoUser"]
  /\ grants' = [grants EXCEPT ![c] = 0]
  /\ result' = [result EXCEPT ![c] = "none"]
  /\ events' = [events EXCEPT ![c] = <<>>]
  /\ touched' = [touched EXCEPT ![c] = FALSE]
  /\ inFlight' = Append(inFlight, c)
  /\ UNCHANGED <<now, schedVars, appVars, rlVars, pmVars, timer, page, isLoggedIn, contexts, boundProxy,
                 detections, closed>>

\* the call of a method that awaits the limiter first: the guard at its top,
\* then the start of rateLimiter.wait()
Invoke(c, k, ready) ==
  /\ pc[c] = "idle"
  /\ IF ready
     THEN /\ kind' = [kind EXCEPT ![c] = k]
          /\ WaitBegin(c)
          /\ result' = [result EXCEPT ![c] = "none"]
          /\ events' = [events EXCEPT ![c] = IF k = "login" /\ isLoggedIn
                                             THEN <<"authenticated">> ELSE <<>>]
          /\ touched' = [touched EXCEPT ![c] = FALSE]
          /\ inFlight' = Append(inFlight, c)
     ELSE \* `throw new Error(...)` before the try block
          /\ kind' = [kind EXCEPT ![c] = k]
          /\ result' = [result EXCEPT ![c] = "THROW"]
          /\ events' = [events EXCEPT ![c] = <<>>]
          /\ touched' = [touched EXCEPT ![c] = FALSE]
          /\ grants' = [grants EXCEPT ![c] = 0]
          /\ UNCHANGED <<pc, timer, inFlight>>
  /\ UNCHANGED <<now, schedVars, appVars, rlVars, pmVars, page, isLoggedIn, contexts, boundProxy, detections,
                 closed>>

\* login()
Login(c) == Invoke(c, "login", page # 0)

\* createPost()
CreatePost(c) == Invoke(c, "createPost", page # 0 /\ isLoggedIn)

\* likePost() without the guard at its top
LikePostUnguarded(c) == Invoke(c, "likePost", TRUE)

\* likePost()
LikePost(c) == Invoke(c, "likePost", page # 0 /\ isLoggedIn)

\* followUser()
FollowUser(c) == Invoke(c, "followUser", page # 0 /\ isLoggedIn)

\* commentOnPost()
CommentOnPost(c) == Invoke(c, "commentOnPost", page # 0 /\ isLoggedIn)

\* unfollowUser()
UnfollowUser(c) == Invoke(c, "unfollowUser", page # 0 /\ isLoggedIn)

\* the session's count of logins in a row that found the suspicious-activity
\* notice, after the step `label` of method `k` gave `outcome` and led to `next`
Detections(k, label, outcome, next) ==
  IF k = "login" /\ label = "suspicious?" /\ outcome = "found"
  THEN IF detections < DegradedAfter THEN detections + 1 ELSE detections
  ELSE IF next \in Ends THEN 0 ELSE detections

\* LoggedInAfter, setting the flag whenever a login ends
LoggedInAfterAnyLogin(k, end) == IF k = "login" THEN TRUE ELSE isLoggedIn

\* this.isLoggedIn when a call of method `k` has ended by `end`: login sets
\* it on the line before its `return true`, and nothing else writes it
LoggedInAfter(k, end) == IF k = "login" /\ end = "RETURN_TRUE" THEN TRUE ELSE isLoggedIn

\* what a step can do on the current page: once its context is closed every
\* page call rejects
PageOutcomes(label) ==
  IF closed THEN Outcomes(label) \ {"ok", "found", "absent"} ELSE Outcomes(label)

\* the browser context of the current page is closed (browser.close() in
\* Application.shutdown() closes every context of the browser)
ContextClose ==
  /\ page # 0
  /\ ~closed
  /\ closed' = TRUE
  /\ UNCHANGED <<now, schedVars, appVars, rlVars, callVars, pmVars, page, isLoggedIn, contexts,
                 boundProxy, result, events, touched, inFlight, detections>>

\* one awaited page call of the method caller c is running, and the code up
\* to the next await
PageStep(c) ==
  /\ pc[c] \notin {"idle", "randomDelay", "limited", "fetching"}
  /\ \E outcome \in PageOutcomes(pc[c]) :
       \E next \in Flow(kind[c], pc[c], outcome) :
         /\ touched' = [touched EXCEPT ![c] = TRUE]
         /\ events' = [events EXCEPT ![c] = @ \o Event(pc[c], outcome)]
         /\ detections' = Detections(kind[c], pc[c], outcome, next)
         /\ IF next \in Ends
            THEN /\ pc' = [pc EXCEPT ![c] = "idle"]
                 /\ result' = [result EXCEPT ![c] = next]
                 /\ inFlight' = Without(inFlight, c)
                 /\ isLoggedIn' = LoggedInAfter(kind[c], next)
            ELSE /\ pc' = [pc EXCEPT ![c] = next]
                 /\ UNCHANGED <<result, inFlight, isLoggedIn>>
  /\ UNCHANGED <<now, schedVars, appVars, rlVars, pmVars, kind, timer, grants, page, contexts, boundProxy,
                 closed>>

\* ------------------------------------------------------------ Scheduler
TaskIds == 1..NumTasks

NoCall == [op |-> "none", task |-> 0, at |-> "idle", res |-> "none"]

\* new Scheduler(...)
SchedulerNew ==
  /\ jobs = [t \in TaskIds |-> 0]
  /\ cronJobs = <<>>
  /\ removed = {}
  /\ call = NoCall
  /\ firing = [j \in 1..MaxJobs |-> "idle"]
  /\ fired = 0
  /\ failures = 0
  /\ exited = FALSE
  /\ taskPc = "idle"

\* job.stop() on the job stored for task t, if there is one
Stopped(t) ==
  IF jobs[t] = 0 THEN cronJobs
  ELSE [cronJobs EXCEPT ![jobs[t]] = [@ EXCEPT !.running = FALSE]]

\* scheduleTask(), up to its await: `new CronJob(pattern, onTick, null, true, tz)`
\* starts the job, and jobs.set(task.id, job) stores it
CreateJob(t) ==
  /\ cronJobs' = Append(cronJobs, [task |-> t, running |-> TRUE])
  /\ jobs' = [jobs EXCEPT ![t] = Len(cronJobs) + 1]

\* scheduleTask(task); `valid` is false when the CronJob constructor rejects
\* the pattern
ScheduleTask(t, valid) ==
  /\ call.at = "idle" /\ ~exited
  /\ Len(cronJobs) < MaxJobs
  /\ IF valid
     THEN /\ CreateJob(t)
          /\ call' = [op |-> "scheduleTask", task |-> t, at |-> "nextRun", res |-> "none"]
          /\ removed' = removed \ {t}
     ELSE /\ call' = [op |-> "scheduleTask", task |-> t, at |-> "idle", res |-> "THROW"]
          /\ UNCHANGED <<cronJobs, jobs, removed>>
  /\ UNCHANGED <<now, rlVars, callVars, pmVars, sessVars, appVars, firing, fired, failures,
                 exited, taskPc>>

\* rescheduleTask(taskId, newCronPattern), up to its first await
RescheduleTask(t) ==
  /\ call.at = "idle" /\ ~exited
  /\ Len(cronJobs) < MaxJobs
  /\ cronJobs' = Stopped(t)
  /\ call' = [op |-> "rescheduleTask", task |-> t, at |-> "pattern", res |-> "none"]
  /\ removed' = removed \ {t}
  /\ UNCHANGED <<now, rlVars, callVars, pmVars, sessVars, appVars, jobs, firing, fired,
                 failures, exited, taskPc>>

\* removeTask(taskId), up to its await
RemoveTask(t) ==
  /\ call.at = "idle" /\ ~exited
  /\ cronJobs' = Stopped(t)
  /\ jobs' = [jobs EXCEPT ![t] = 0]
  /\ call' = [op |-> "removeTask", task |-> t, at |-> "inactive", res |-> "none"]
  /\ removed' = removed \cup {t}
  /\ UNCHANGED <<now, rlVars, callVars, pmVars, sessVars, appVars, firing, fired, failures,
                 exited, taskPc>>

\* what the awaited repository call can do (findOne can also resolve to null)
RepositoryOutcomes(at) ==
  IF at = "findOne" THEN {"ok", "null", "throw"} ELSE {"ok", "throw"}

\* the awaited repository call of the method in progress settles, and the
\* method runs on to its next await or to its end
SchedulerStep(outcome) ==
  /\ call.at # "idle" /\ ~exited
  /\ outcome \in RepositoryOutcomes(call.at)
  /\ IF outcome # "ok"
     THEN \* logged and rethrown (a null task makes scheduleTask throw)
          /\ call' = [call EXCEPT !.at = "idle", !.res = "THROW"]
          /\ UNCHANGED <<cronJobs, jobs>>
     ELSE CASE call.at = "pattern" ->
                 /\ call' = [call EXCEPT !.at = "findOne"]
                 /\ UNCHANGED <<cronJobs, jobs>>
            [] call.at = "findOne" ->
                 /\ CreateJob(call.task)
                 /\ call' = [call EXCEPT !.at = "nextRun"]
            [] OTHER ->
                 /\ call' = [call EXCEPT !.at = "idle", !.res = "ok"]
                 /\ UNCHANGED <<cronJobs, jobs>>
  /\ UNCHANGED <<now, rlVars, callVars, pmVars, sessVars, appVars, removed, firing, fired,
                 failures, exited, taskPc>>

\* the cron library calls the onTick callback of a started job
Fire(j) ==
  /\ ~exited
  /\ j \in DOMAIN cronJobs
  /\ cronJobs[j].running
  /\ firing[j] = "idle"
  /\ fired < MaxFirings
  /\ firing' = [firing EXCEPT ![j] = "lastRun"]
  /\ fired' = fired + 1
  /\ UNCHANGED <<now, rlVars, callVars, pmVars, sessVars, appVars, jobs, cronJobs, removed,
                 call, failures, exited, taskPc>>

\* the awaits of the callback: the two repository updates can reject; the
\* executeTask methods only log
FireOutcomes(label) == IF label = "execute" THEN {"ok"} ELSE {"ok", "throw"}

\* one await of the onTick callback settles; its catch block only logs
FireStep(j, outcome) ==
  /\ ~exited
  /\ firing[j] # "idle"
  /\ outcome \in FireOutcomes(firing[j])
  /\ IF outcome = "throw"
     THEN /\ firing' = [firing EXCEPT ![j] = "idle"]
          /\ failures' = failures + 1
          /\ UNCHANGED exited
     ELSE /\ firing' = [firing EXCEPT ![j] = CASE firing[j] = "lastRun" -> "execute"
                                               [] firing[j] = "execute" -> "nextRun"
                                               [] firing[j] = "nextRun" -> "idle"]
          /\ UNCHANGED <<failures, exited>>
  /\ UNCHANGED <<now, rlVars, callVars, pmVars, sessVars, appVars, jobs, cronJobs, removed,
                 call, fired, taskPc>>

\* ------------------------------------------------------------ tasks/post-content
\* the awaits of main(), in order
PostContentSteps == <<"connect", "launch", "proxies", "session", "content", "post">>

\* createPost() is called on an InstagramAutomation on which login() was never
\* called: its guard throws
PostContentOutcomes(label) == IF label = "post" THEN {"throw"} ELSE {"ok", "throw"}

\* main() is called
PostContentStart ==
  /\ ~exited
  /\ taskPc = "idle"
  /\ taskPc' = PostContentSteps[1]
  /\ UNCHANGED <<now, rlVars, callVars, pmVars, sessVars, appVars, jobs, cronJobs, removed,
                 call, firing, fired, failures, exited>>

\* one await of main() settles; the catch block logs and calls process.exit(1)
PostContentStep(outcome) ==
  /\ ~exited
  /\ \E i \in DOMAIN PostContentSteps :
       /\ taskPc = PostContentSteps[i]
       /\ outcome \in PostContentOutcomes(taskPc)
       /\ IF outcome = "throw"
          THEN /\ failures' = failures + 1
               /\ exited' = TRUE
               /\ taskPc' = "exit"
          ELSE /\ taskPc' = PostContentSteps[i + 1]
               /\ UNCHANGED <<failures, exited>>
  /\ UNCHANGED <<now, rlVars, callVars, pmVars, sessVars, appVars, jobs, cronJobs, removed,
                 call, firing, fired>>

\* ------------------------------------------------------------ Application
ShutdownCallers == {"initialize", "SIGINT", "SIGTERM"}

\* new Application(logger, config)
ApplicationNew ==
  /\ appPc = "new"
  /\ downPc = [s \in ShutdownCallers |-> "idle"]
  /\ browser = FALSE
  /\ browserOpen = FALSE
  /\ openContexts = 0
  /\ isRunning = FALSE
  /\ scheduler = FALSE

\* initialize() is called: `this.isRunning = true`, then database.connect()
AppStart ==
  /\ ~exited
  /\ appPc = "new"
  /\ appPc' = "connect"
  /\ isRunning' = TRUE
  /\ UNCHANGED <<now, rlVars, callVars, pmVars, sessVars, schedVars, downPc, browser,
                 browserOpen, openContexts, scheduler>>

\* the jobs scheduler.initialize() has started when it has scheduled the
\* first k tasks
JobsOfFirst(k) == [i \in 1..k |-> [task |-> i, running |-> TRUE]]

\* one await of initialize() settles.  `reached` is how far
\* instagram.initialize() gets (as in SessionInitialize) and k the number of
\* tasks scheduler.initialize() has scheduled when it returns or throws.
AppStep(outcome, reached, k) ==
  /\ ~exited
  /\ appPc \in {"connect", "launch", "proxies", "session", "scheduler"}
  /\ LET ok == IF appPc = "session" THEN reached = "done" ELSE outcome = "ok"
     IN /\ appPc' = IF ~ok THEN "failing"      \* the catch block: await this.shutdown()
                     ELSE CASE appPc = "connect" -> "launch"
                            [] appPc = "launch" -> "proxies"
                            [] appPc = "proxies" -> "session"
                            [] appPc = "session" -> "scheduler"
                            [] appPc = "scheduler" -> "ready"
        /\ browser' = IF appPc = "launch" /\ ok THEN TRUE ELSE browser
        /\ browserOpen' = IF appPc = "launch" /\ ok THEN TRUE ELSE browserOpen
        /\ openContexts' = IF appPc = "session" /\ reached \in {"page", "script", "done"}
                           THEN openContexts + 1 ELSE openContexts
        /\ scheduler' = IF appPc = "session" /\ ok THEN TRUE ELSE scheduler
        /\ IF appPc = "scheduler"
           THEN /\ cronJobs' = JobsOfFirst(k)
                /\ jobs' = [t \in TaskIds |-> IF t <= k THEN t ELSE 0]
           ELSE UNCHANGED <<cronJobs, jobs>>
  /\ UNCHANGED <<now, rlVars, callVars, pmVars, sessVars, removed, call, firing, fired,
                 failures, exited, taskPc, downPc, isRunning>>

\* Scheduler.shutdown(): every job is stopped
SchedulerShutdown == [j \in DOMAIN cronJobs |-> [cronJobs[j] EXCEPT !.running = FALSE]]

\* shutdown() called by s returns; the caller then ends the process
\* (process.exit in the signal handlers and in the catch block of main)
ShutdownReturns(s) ==
  /\ downPc' = [downPc EXCEPT ![s] = "returned"]
  /\ isRunning' = FALSE
  /\ exited' = TRUE
  /\ appPc' = IF s = "initialize" THEN "failed" ELSE appPc

\* shutdown(), up to `await this.browser.close()` or, without a browser, to
\* its end
ShutdownBegin(s) ==
  /\ ~exited
  /\ downPc[s] = "idle"
  /\ s = "initialize" => appPc = "failing"
  /\ cronJobs' = IF scheduler THEN SchedulerShutdown ELSE cronJobs
  /\ IF browser
     THEN /\ downPc' = [downPc EXCEPT ![s] = "close"]
          /\ UNCHANGED <<isRunning, exited, appPc>>
     ELSE ShutdownReturns(s)
  /\ UNCHANGED <<now, rlVars, callVars, pmVars, sessVars, jobs, removed, call, firing,
                 fired, failures, taskPc, browser, browserOpen, openContexts, scheduler>>

\* shutdown(): browser.close() settles; when it rejects, the catch block logs
ShutdownClose(s, outcome) ==
  /\ ~exited
  /\ downPc[s] = "close"
  /\ IF outcome = "ok"
     THEN /\ browser' = FALSE
          /\ browserOpen' = FALSE
          /\ openContexts' = 0
     ELSE UNCHANGED <<browser, browserOpen, openContexts>>
  /\ ShutdownReturns(s)
  /\ UNCHANGED <<now, rlVars, callVars, pmVars, sessVars, jobs, cronJobs, removed, call,
                 firing, fired, failures, taskPc, scheduler>>

InitCalls ==
  /\ pc = [c \in Callers |-> "idle"]
  /\ kind = [c \in Callers |-> "none"]
  /\ timer = [c \in Callers |-> 0]
  /\ grants = [c \in Callers |-> 0]
  /\ result = [c \in Callers |-> "none"]
  /\ events = [c \in Callers |-> <<>>]
  /\ touched = [c \in Callers |-> FALSE]
  /\ inFlight = <<>>

\* constructor of InstagramAutomation
InstagramAutomationNew ==
  /\ page = 0
  /\ isLoggedIn = FALSE
  /\ contexts = 0
  /\ boundProxy = 0
  /\ detections = 0
  /\ closed = FALSE

InitRL ==
  /\ now = 0
  /\ InstagramAutomationNew
  /\ SchedulerNew
  /\ ApplicationNew
  /\ \E m \in 1..MaxRequestsOpt, w \in 1..MaxWindowSecs :
       RateLimiterNew(m, w, 0, 0)
  /\ grantLog = <<>>
  /\ InitCalls
  /\ ProxyManagerNew("current", "manual", 0)

NextRL ==
  \/ Tick
  \/ Reset
  \/ \E c \in Callers : Wait(c)
  \/ \E c \in Callers : WaitCheck(c)
  \/ \E c \in Callers : WaitWake(c)

SpecRL == InitRL /\ [][NextRL]_vars

\* the values of options.minDelay and options.maxDelay tried (0: also unset)
DelayOpts == {k * (DefaultMinDelay \div 2) : k \in 0..MaxDelayOpt}

\* the limiter under every pair of configured jitter bounds
InitJitter ==
  /\ now = 0
  /\ InstagramAutomationNew
  /\ SchedulerNew
  /\ ApplicationNew
  /\ \E lo \in DelayOpts, hi \in DelayOpts : RateLimiterNew(1, 1, lo, hi)
  /\ grantLog = <<>>
  /\ InitCalls
  /\ ProxyManagerNew("current", "manual", 0)

NextJitter ==
  \/ Tick
  \/ \E c \in Callers : Wait(c)
  \/ \E c \in Callers : WaitCheck(c)
  \/ \E c \in Callers : WaitWake(c)

SpecJitter == InitJitter /\ [][NextJitter]_vars

\* the limiter with the event loop's guarantee: a due timer's callback runs
InitRLFair ==
  /\ now = 0
  /\ InstagramAutomationNew
  /\ SchedulerNew
  /\ ApplicationNew
  /\ \E m \in 0..MaxRequestsOpt, w \in 1..MaxWindowSecs :
       RateLimiterNew(m, w, 0, 0)
  /\ grantLog = <<>>
  /\ InitCalls
  /\ ProxyManagerNew("current", "manual", 0)

NextRLFair ==
  \/ TimelyTick
  \/ Reset
  \/ \E c \in Callers : WaitTimely(c)
  \/ \E c \in Callers : WaitCheck(c)
  \/ \E c \in Callers : WaitWake(c)

SpecRLFair ==
  /\ InitRLFair
  /\ [][NextRLFair]_vars
  /\ WF_vars(TimelyTick)
  /\ \A c \in Callers : WF_vars(WaitCheck(c)) /\ WF_vars(WaitWake(c))

InitProxy ==
  /\ now = 0
  /\ InstagramAutomationNew
  /\ SchedulerNew
  /\ ApplicationNew
  /\ RateLimiterNew(1, 1, 0, 0)
  /\ grantLog = <<>>
  /\ InitCalls
  /\ \/ ProxyManagerNew("current", "none", ProxyRotationSecs * MsPerSecond)
     \/ \E t \in ProxyTypes : ProxyManagerNew("legacy", t, 0)

ProxyTick == Advance(ProxyMaxTicks)

NextProxy ==
  \/ ProxyTick
  \/ \E cfg \in ProxyConfigs, src \in SourceResults :
       Initialize(cfg.type, src, cfg.hasLocator, ProxyRotationSecs * MsPerSecond)
  \/ GetProxy
  \/ \E src \in SourceResults : LegacyInitialize(src)
  \/ \E c \in Callers : LegacyGetProxy(c)
  \/ \E c \in Callers, src \in SourceResults : LegacyFetchDone(c, src)

SpecProxy == InitProxy /\ [][NextProxy]_vars

\* the session: the pool holds the configured manual list, the limiter
\* allows one request per second
InitSession ==
  /\ now = 0
  /\ InstagramAutomationNew
  /\ SchedulerNew
  /\ ApplicationNew
  /\ RateLimiterNew(1, 1, 0, 0)
  /\ grantLog = <<>>
  /\ InitCalls
  /\ variant = "current"
  /\ proxyType = "none"
  /\ proxies = [i \in 1..NumProxies |-> i]
  /\ failCount = [p \in ProxyIds |-> 0]
  /\ currentIndex = 0
  /\ currentProxyIndex = 0
  /\ lastRotation = -1
  /\ rotationInterval = DefaultRotationInterval
  /\ initAt = 0
  /\ handed = <<>>
  /\ sawExpiry = [c \in Callers |-> -1]
  /\ crossed = NoneCrossed
  /\ lastOp = [NoOp EXCEPT !.op = "initialize", !.type = "manual", !.src = "ok"]

SessionTick == Advance(SessionMaxTicks)

NextSession ==
  \/ SessionTick
  \/ \E useProxy \in BOOLEAN, reached \in {"proxy", "context", "page", "script", "done"} :
       contexts < MaxContexts /\ SessionInitialize(useProxy, reached)
  \/ \E c \in Callers : Login(c)
  \/ \E c \in Callers : CreatePost(c)
  \/ \E c \in Callers : LikePost(c)
  \/ \E c \in Callers : FollowUser(c)
  \/ \E c \in Callers : CommentOnPost(c)
  \/ \E c \in Callers : UnfollowUser(c)
  \/ \E c \in Callers : WaitCheck(c)
  \/ \E c \in Callers : WaitWake(c)
  \/ \E c \in Callers : PageStep(c)

SpecSession == InitSession /\ [][NextSession]_vars

\* the session, whose browser context can be closed at any moment
NextCancel ==
  \/ SessionTick
  \/ \E useProxy \in BOOLEAN, reached \in {"proxy", "context", "page", "script", "done"} :
       contexts < MaxContexts /\ SessionInitialize(useProxy, reached)
  \/ ContextClose
  \/ \E c \in Callers : Login(c)
  \/ \E c \in Callers : CreatePost(c)
  \/ \E c \in Callers : LikePost(c)
  \/ \E c \in Callers : FollowUser(c)
  \/ \E c \in Callers : CommentOnPost(c)
  \/ \E c \in Callers : UnfollowUser(c)
  \/ \E c \in Callers : WaitCheck(c)
  \/ \E c \in Callers : WaitWake(c)
  \/ \E c \in Callers : PageStep(c)

SpecCancel == InitSession /\ [][NextCancel]_vars

\* the limiter options InstagramAutomation falls back to
DefaultSessionMaxRequests == 100
DefaultSessionTimeWindow == 3600

\* the readiness path alone (initialize and login), with the limiter as the
\* constructor of InstagramAutomation configures it by default
InitReady ==
  /\ now = 0
  /\ InstagramAutomationNew
  /\ SchedulerNew
  /\ ApplicationNew
  /\ RateLimiterNew(DefaultSessionMaxRequests, DefaultSessionTimeWindow, 0, 0)
  /\ grantLog = <<>>
  /\ InitCalls
  /\ variant = "current"
  /\ proxyType = "none"
  /\ proxies = [i \in 1..NumProxies |-> i]
  /\ failCount = [p \in ProxyIds |-> 0]
  /\ currentIndex = 0
  /\ currentProxyIndex = 0
  /\ lastRotation = -1
  /\ rotationInterval = DefaultRotationInterval
  /\ initAt = 0
  /\ handed = <<>>
  /\ sawExpiry = [c \in Callers |-> -1]
  /\ crossed = NoneCrossed
  /\ lastOp = [NoOp EXCEPT !.op = "initialize", !.type = "manual", !.src = "ok"]

ReadyTick == Advance(ReadyMaxTicks)

NextReady ==
  \/ ReadyTick
  \/ \E useProxy \in BOOLEAN, reached \in {"proxy", "context", "page", "script", "done"} :
       contexts < ReadyMaxContexts /\ SessionInitialize(useProxy, reached)
  \/ \E c \in Callers : Login(c)
  \/ \E c \in Callers : WaitCheck(c)
  \/ \E c \in Callers : PageStep(c)

SpecReady == InitReady /\ [][NextReady]_vars

\* the scheduler and the post-content task
InitScheduler ==
  /\ now = 0
  /\ InstagramAutomationNew
  /\ SchedulerNew
  /\ ApplicationNew
  /\ RateLimiterNew(1, 1, 0, 0)
  /\ grantLog = <<>>
  /\ InitCalls
  /\ ProxyManagerNew("current", "none", 0)

NextScheduler ==
  \/ \E t \in TaskIds, valid \in BOOLEAN : ScheduleTask(t, valid)
  \/ \E t \in TaskIds : RescheduleTask(t)
  \/ \E t \in TaskIds : RemoveTask(t)
  \/ \E outcome \in {"ok", "null", "throw"} : SchedulerStep(outcome)
  \/ \E j \in 1..MaxJobs : Fire(j)
  \/ \E j \in 1..MaxJobs, outcome \in {"ok", "throw"} : FireStep(j, outcome)
  \/ PostContentStart
  \/ \E outcome \in {"ok", "throw"} : PostContentStep(outcome)

SpecScheduler == InitScheduler /\ [][NextScheduler]_vars

\* the application: start-up, the scheduled jobs, shutdown
InitApp == InitScheduler

NextApp ==
  \/ AppStart
  \/ \E outcome \in {"ok", "throw"},
        reached \in {"proxy", "context", "page", "script", "done"},
        k \in 0..NumTasks : AppStep(outcome, reached, k)
  \/ \E s \in ShutdownCallers : ShutdownBegin(s)
  \/ \E s \in ShutdownCallers, outcome \in {"ok", "throw"} : ShutdownClose(s, outcome)
  \/ \E j \in 1..MaxJobs : appPc = "ready" /\ Fire(j)
  \/ \E j \in 1..MaxJobs, outcome \in {"ok", "throw"} : FireStep(j, outcome)

SpecApp == InitApp /\ [][NextApp]_vars

\* the failure counters, with the clock standing still
InitHealth ==
  /\ now = 0
  /\ InstagramAutomationNew
  /\ SchedulerNew
  /\ ApplicationNew
  /\ RateLimiterNew(1, 1, 0, 0)
  /\ grantLog = <<>>
  /\ InitCalls
  /\ ProxyManagerNew("current", "none", 0)

NextHealth ==
  \/ \E cfg \in ProxyConfigs, src \in SourceResults :
       Initialize(cfg.type, src, cfg.hasLocator, 0)
  \/ GetProxy
  \/ \E p \in ProxyIds, ok \in BOOLEAN : ReportOutcome(p, ok)

SpecHealth == InitHealth /\ [][NextHealth]_vars

\* ------------------------------------------------------------ claims: RateLimiter

\* the grants that lie in the window of length timeWindow ending at grant i
GrantsInWindowEndingAt(i) ==
  {j \in 1..Len(grantLog) :
     /\ grantLog[j] <= grantLog[i]
     /\ grantLog[i] - grantLog[j] < timeWindow}

\* C1: rate bound.  No window of length timeWindow contains more than
\* maxRequests grants timestamps, whatever the number of callers of wait().
RateBound ==
  \A i \in 1..Len(grantLog) :
    Cardinality(GrantsInWindowEndingAt(i)) <= maxRequests

\* C2: mutual exclusion of purge / check / record.  While one caller is
\* between its purge and its record (it sleeps in "limited"), no other caller
\* performs its own purge-and-check or its own record.
WaitMutualExclusion ==
  [][\A c1 \in Callers :
       pc[c1] = "limited" =>
         \A c2 \in Callers \ {c1} :
           ~(pc[c2] \in {"randomDelay", "limited"} /\ pc'[c2] # pc[c2])]_vars

\* ------------------------------------------------------------ claims: ProxyManager

\* is the proxy excluded from rotation?
Excluded(p) == failCount[p] >= FailureThreshold

\* C3: in createPost, once the share step has been clicked and the wait for
\* the success confirmation has timed out, the call ends by returning false,
\* and the share step is clicked at most once in one invocation.
Shares(c) == Cardinality({i \in DOMAIN events[c] : events[c][i] = "share"})

NoDuplicatePost ==
  \A c \in Callers :
    kind[c] = "createPost" =>
      /\ Shares(c) <= 1
      /\ (\E i \in DOMAIN events[c] : events[c][i] = "confirmTimeout") =>
           \/ pc[c] = "shotPost"
           \/ pc[c] = "idle" /\ result[c] = "RETURN_FALSE"

\* C3 witness: a createPost that clicked share, saw the confirmation time
\* out, and has returned false
PostFailedAfterShare ==
  \E c \in Callers :
    /\ kind[c] = "createPost"
    /\ pc[c] = "idle"
    /\ result[c] = "RETURN_FALSE"
    /\ events[c] = <<"share", "confirmTimeout">>

\* C4: of two likePost/followUser calls in progress on the session, the one
\* submitted later has performed no page step while the earlier one is
\* unfinished.
IsAction(c) == kind[c] \in {"likePost", "followUser"}

ActionsSerialized ==
  \A i, j \in DOMAIN inFlight :
    (i < j /\ IsAction(inFlight[i]) /\ IsAction(inFlight[j])) => ~touched[inFlight[j]]

\* C5: proxy exclusion.  getProxy never returns a proxy whose consecutive
\* failure count has reached the threshold, and it fails when every proxy of
\* the pool is excluded.
ProxyExclusion ==
  lastOp.op = "getProxy" =>
    /\ lastOp.proxy # 0 => ~Excluded(lastOp.proxy)
    /\ (\A i \in 1..Len(proxies) : Excluded(proxies[i])) => ~lastOp.ok

\* the pool of the variant that is built
PoolSize == Len(proxies)

\* C6: when a likePost/followUser call on a session bound to a proxy returns
\* true, the success is reported to the pool for that proxy and the proxy's
\* failCount is 0.
SuccessReported ==
  [][\A c \in Callers :
       (/\ IsAction(c)
        /\ pc[c] # "idle"
        /\ pc'[c] = "idle"
        /\ result'[c] = "RETURN_TRUE"
        /\ boundProxy # 0) =>
         /\ lastOp'.op = "reportOutcome"
         /\ lastOp'.proxy = boundProxy
         /\ lastOp'.ok
         /\ failCount'[boundProxy] = 0]_vars

\* C7: within one rotation epoch the order handed out is round-robin: any
\* PoolSize consecutive calls return distinct proxies, and calls PoolSize
\* apart return the same proxy.
StableRoundRobin ==
  \A i, j \in 1..Len(handed) :
    i < j =>
      /\ j - i < PoolSize => handed[i] # handed[j]
      /\ j - i = PoolSize => handed[i] = handed[j]

\* C7 witness: the legacy pool of at least two proxies has been reshuffled and
\* has then handed out one proxy more than it holds.
RoundRobinWrapped ==
  /\ variant = "legacy"
  /\ lastRotation > 0
  /\ PoolSize >= 2
  /\ Len(handed) = PoolSize + 1

\* C8: a getProxy call made when the pool has gone longer than the rotation
\* interval since its last rotation (or its initialization) reshuffles and
\* returns the proxy of slot 0.
RotationWhenDue ==
  (lastOp.op = "getProxy" /\ lastOp.due /\ lastOp.proxy # 0) =>
    (lastOp.rotated /\ lastOp.slot = 0)

\* C9: the calls that cross one expired rotation interval cause one rotation
\* and, in a pool of two or more, are handed different slots.
SingleRotationPerExpiry ==
  /\ crossed.rotations <= 1
  /\ PoolSize >= 2 =>
       \A i, j \in 1..Len(crossed.slots) : i # j => crossed.slots[i] # crossed.slots[j]

\* C10: initialize never completes successfully with an empty pool, nor on a
\* source that is unreachable or malformed.
InitializeNeverEmpty ==
  (lastOp.op = "initialize" /\ lastOp.ok /\ lastOp.type \in {"manual", "api", "file"}) =>
    /\ PoolSize > 0
    /\ lastOp.type # "manual" => lastOp.src = "ok"

\* C11: no proxy leaves the pool: every step of next() / rotate() (any pool
\* operation other than initialize) keeps every proxy the pool held, and a
\* step that reshuffled left a permutation of the entries it found.
Held(q) == {q[i] : i \in DOMAIN q}

NeverDeleted ==
  [][lastOp'.op # "initialize" =>
       /\ Held(proxies) \subseteq Held(proxies')
       /\ (lastOp'.op = "getProxy" /\ lastOp'.rotated) =>
            (Held(proxies') = Held(proxies) /\ Len(proxies') = Len(proxies))]_vars

\* C12: a call of login, createPost, likePost, commentOnPost, followUser or
\* unfollowUser has performed a page step only if the limiter has recorded a
\* grant for that call.
ActionKinds == {"login", "createPost", "likePost", "commentOnPost", "followUser",
                "unfollowUser"}

GrantPrecedesPageStep ==
  \A c \in Callers : (kind[c] \in ActionKinds /\ touched[c]) => grants[c] >= 1

\* C12 witness: a commentOnPost call granted by the limiter is typing
CommentTypingAfterGrant ==
  \E c \in Callers :
    /\ kind[c] = "commentOnPost"
    /\ pc[c] = "typeChar"
    /\ touched[c]
    /\ grants[c] = 1

\* C13: every call of wait() ends by recording a grant: a caller that has
\* entered wait() eventually has returned from it with its grant recorded.
WaitAlwaysGrants ==
  \A c \in Callers :
    (pc[c] \in {"randomDelay", "limited"}) ~> (pc[c] = "idle" /\ grants[c] = 1)

\* C13 witness: a caller held back by a full window has been granted since
\* (its grant lies a full window after the one that held it back)
GrantedAfterLimit ==
  \E c \in Callers, i, j \in 1..Len(grantLog) :
    /\ pc[c] = "idle"
    /\ grants[c] = 1
    /\ i < j
    /\ j = Len(grantLog)
    /\ grantLog[j] - grantLog[i] = timeWindow
    /\ maxRequests >= 1

\* C14: jitter bound.  The delay wait() sets its first timer to lies within
\* the configured [minDelay, maxDelay] (an unset maxDelay is the default),
\* for every configured pair with minDelay <= maxDelay.
ConfiguredMaxDelay == IF options.maxDelay = 0 THEN DefaultMaxDelay ELSE options.maxDelay

JitterBound ==
  [][\A c \in Callers :
       (pc[c] = "idle" /\ pc'[c] = "randomDelay" /\ options.minDelay <= ConfiguredMaxDelay) =>
         /\ options.minDelay <= timer'[c] - now
         /\ timer'[c] - now <= ConfiguredMaxDelay]_vars

\* does the history of caller c's call hold the event e?
Saw(c, e) == \E i \in DOMAIN events[c] : events[c][i] = e

\* C15: a likePost call whose state check found the post liked (the unlike
\* button is there) has returned true, and has not run the like click.
IdempotentLike ==
  \A c \in Callers :
    (kind[c] = "likePost" /\ Saw(c, "alreadyLiked")) =>
      /\ pc[c] = "idle"
      /\ result[c] = "RETURN_TRUE"
      /\ ~Saw(c, "like")

\* C15 witness: a likePost call found the post liked and has returned
LikedAlready ==
  \E c \in Callers :
    /\ kind[c] = "likePost"
    /\ events[c] = <<"alreadyLiked">>
    /\ pc[c] = "idle"
    /\ result[c] = "RETURN_TRUE"

\* a followUser / unfollowUser call of caller c has clicked at most one
\* follow button, resp. the unfollow button and its confirmation
Clicks(c, e) == Cardinality({i \in DOMAIN events[c] : events[c][i] = e})

FailuresReturned ==
  \A c \in Callers : kind[c] \in ActionKinds => result[c] # "THROW"

\* C18: a likePost / followUser call returns false only after a failed step
\* was retried: the call has awaited the limiter (fresh jitter) at least twice.
RetriedBeforeFailed ==
  \A c \in Callers :
    (IsAction(c) /\ pc[c] = "idle" /\ result[c] = "RETURN_FALSE") => grants[c] >= 2

\* C19: once three logins in a row on a session bound to a proxy have ended
\* on the suspicious-activity notice, no call starts its page steps on that
\* session, and the initialize that follows binds a different proxy.
ReinitAfterDegraded ==
  [][(detections >= DegradedAfter /\ boundProxy # 0 /\ Len(proxies) >= 2) =>
       /\ \A c \in Callers : touched'[c] => touched[c]
       /\ page' # page => boundProxy' # boundProxy]_vars

\* C20: on a session that has a page and is logged in, initialize acquires
\* no proxy and opens no context or page, and a login called on it submits
\* no credentials.
EnsureReadyIdempotent ==
  [][(page # 0 /\ isLoggedIn) =>
       /\ contexts' = contexts
       /\ page' = page
       /\ currentIndex' = currentIndex
       /\ \A c \in Callers :
            (kind[c] = "login" /\ Saw(c, "authenticated")) => Clicks(c, "submit")' = 0]_vars

\* C21: isLoggedIn becomes true only in a step in which a login call observes
\* the post-login landmark, whichever interstitials it met on the way.
LoggedInOnlyByLandmark ==
  [][(isLoggedIn' /\ ~isLoggedIn) =>
       \E c \in Callers :
         /\ kind[c] = "login"
         /\ pc[c] = "landmark"
         /\ pc'[c] = "idle"
         /\ result'[c] = "RETURN_TRUE"
         /\ Clicks(c, "landmark")' = 1]_vars

\* C21 witness: a login that observed the landmark has returned true and the
\* session is logged in
LoggedInByLandmark ==
  \E c \in Callers :
    /\ isLoggedIn
    /\ kind[c] = "login"
    /\ pc[c] = "idle"
    /\ result[c] = "RETURN_TRUE"
    /\ events[c] = <<"submit", "landmark">>

\* C23: a failure-screenshot that itself fails changes nothing: createPost
\* still returns false, and login still goes on to inspect the page.
DiagnosticsFireAndForget ==
  [][\A c \in Callers :
       (pc[c] \in {"shot", "shotPost"} /\ Saw(c, "shotFailed")') =>
         /\ pc[c] = "shotPost" => (pc'[c] = "idle" /\ result'[c] = "RETURN_FALSE")
         /\ pc[c] = "shot" => pc'[c] = "incorrect?"]_vars

\* C23 witness: a createPost whose share confirmation timed out and whose
\* screenshot failed has returned false
PostFailedShotFailed ==
  \E c \in Callers :
    /\ kind[c] = "createPost"
    /\ events[c] = <<"share", "confirmTimeout", "shotFailed">>
    /\ pc[c] = "idle"
    /\ result[c] = "RETURN_FALSE"

GatedKinds == {"createPost", "likePost", "commentOnPost", "followUser", "unfollowUser"}

\* C27: a post, like, comment, follow or unfollow invoked with no page or while
\* not logged in is rejected at once: the call throws, takes no page step, asks
\* the limiter for nothing, and the request window stays as it was.
RejectedBeforeAnything ==
  [][\A c \in Callers :
       ( /\ pc[c] = "idle"
         /\ page = 0 \/ ~isLoggedIn
         /\ kind'[c] \in GatedKinds
         /\ <<kind[c], result[c], events[c]>>' # <<kind[c], result[c], events[c]>> ) =>
         /\ pc'[c] = "idle"
         /\ result'[c] = "THROW"
         /\ ~touched'[c]
         /\ grants'[c] = 0
         /\ timer' = timer
         /\ requestTimes' = requestTimes
         /\ grantLog' = grantLog]_vars

\* C27 witness: a like was rejected while the window held an earlier request
LikeRejected ==
  \E c \in Callers :
    /\ kind[c] = "likePost" /\ pc[c] = "idle" /\ result[c] = "THROW"
    /\ ~isLoggedIn
    /\ Len(requestTimes) > 0

\* C26: isLoggedIn is true only of a page on which a login succeeded: a step
\* that binds a new page leaves the flag false, and a login that ends without
\* returning true leaves the flag false.
LoggedInMatchesPage ==
  [][/\ page' # page => ~isLoggedIn'
     /\ \A c \in Callers :
          ( /\ kind[c] = "login" /\ pc[c] # "idle" /\ pc'[c] = "idle"
            /\ result'[c] # "RETURN_TRUE" ) => ~isLoggedIn']_vars

\* get currentRequestCount
CurrentRequestCount == Len(FilterSeq(requestTimes, now, timeWindow))

\* get isRateLimited
IsRateLimited == CurrentRequestCount >= maxRequests

Max(a, b) == IF a >= b THEN a ELSE b

\* get timeUntilReset
TimeUntilReset ==
  IF Len(requestTimes) = 0 THEN 0
  ELSE Max(0, timeWindow - (now - requestTimes[1]))

\* C29: the status getters agree: whenever isRateLimited is true,
\* timeUntilReset is greater than zero.
StatusGettersAgree == IsRateLimited => TimeUntilReset > 0

\* the index of the next entry to hand out
NextSlot == IF variant = "current" THEN currentIndex ELSE currentProxyIndex

\* C28: after a successful initialize the index stays inside the list, a
\* getProxy that returns a proxy returns an entry of the list, and a getProxy
\* that throws does so on the empty-pool check or on a failed fetch, never
\* because the entry at the index is missing.
GetProxyInBounds ==
  initAt # -1 =>
    /\ Len(proxies) > 0 => NextSlot < Len(proxies)
    /\ (lastOp.op = "getProxy" /\ lastOp.ok /\ Len(proxies) > 0) =>
         lastOp.proxy \in Held(proxies)
    /\ (lastOp.op = "getProxy" /\ ~lastOp.ok) =>
         \/ variant = "current" /\ Len(proxies) = 0
         \/ lastOp.src # NoOp.src

\* the CronJobs of task t that are running
Started(t) == {j \in DOMAIN cronJobs : cronJobs[j].task = t /\ cronJobs[j].running}

\* C30: whenever no scheduler call is in progress, each task id has at most
\* one started cron job, every started job is the one stored in the jobs map
\* for its task, and a removed task has no started job.
OneStartedJobPerTask ==
  call.at = "idle" =>
    \A t \in TaskIds :
      /\ Cardinality(Started(t)) <= 1
      /\ \A j \in Started(t) : jobs[t] = j
      /\ t \in removed => Started(t) = {}

\* C24: a step in which a task execution fails and is logged leaves the
\* process running.
TaskFailureSurvived == [][failures' > failures => ~exited']_vars

\* C25: when shutdown() returns, called after a successful initialize() or
\* from the catch block of initialize(), every browser and context opened
\* has been closed and isRunning is false.
ShutdownReleases ==
  [][\A s \in ShutdownCallers :
       ( /\ downPc[s] # "returned" /\ downPc'[s] = "returned"
         /\ appPc = "ready" \/ s = "initialize" ) =>
         /\ ~browserOpen'
         /\ openContexts' = 0
         /\ ~isRunning']_vars

\* C22: when the browser context has been closed, a call that was at one of
\* its page steps ends by returning false, whatever its kind, and the session
\* is not left marked as logged in.
CancelledUnwinds ==
  [][\A c \in Callers :
       ( /\ closed
         /\ pc[c] \notin {"idle", "randomDelay", "limited"}
         /\ pc'[c] = "idle" ) =>
         /\ result'[c] = "RETURN_FALSE"
         /\ ~isLoggedIn']_vars

====
